---- MODULE Spec2Model ----
(***************************************************************************)
(* Conversation session controller of copilot-script-fixed.js: the         *)
(* application state, service selection, message submission with its two   *)
(* suspension points (fetch, response.json), response normalisation, error *)
(* handling and reset.                                                      *)
(*                                                                         *)
(* Text is a sequence of chunks.  A chunk is a one-character string for    *)
(* text the user types (so that trim and the email pattern are computed    *)
(* character by character) and an atomic literal for text the program or   *)
(* a backend produces.                                                     *)
(***************************************************************************)
EXTENDS Integers, Sequences, FiniteSets, TLC

\* Largest number of sendMessage calls accepted in one behaviour.
MaxRequests == 2

----------------------------------------------------------------------------
(* Text helpers *)

Whitespace == {" "}

RECURSIVE TrimStart(_)
TrimStart(t) ==
    IF t # <<>> /\ Head(t) \in Whitespace THEN TrimStart(Tail(t)) ELSE t

RECURSIVE TrimEnd(_)
TrimEnd(t) ==
    IF t # <<>> /\ t[Len(t)] \in Whitespace
    THEN TrimEnd(SubSeq(t, 1, Len(t) - 1))
    ELSE t

\* String.prototype.trim
Trim(t) == TrimEnd(TrimStart(t))

\* String.prototype.includes, at chunk granularity
Includes(t, needle) == \E i \in 1..Len(t) : t[i] = needle

\* JavaScript truthiness of a string
Truthy(t) == t # <<>>

----------------------------------------------------------------------------
(* Static configuration *)

API_CONFIG ==
    ("timesheet" :> [baseUrl  |-> "http://localhost:8000",
                     endpoint |-> "/chat",
                     method   |-> "POST"])
    @@
    ("hr-policy" :> [baseUrl  |-> "http://localhost:8001",
                     endpoint |-> "/query",
                     method   |-> "POST"])

SERVICES ==
    ("timesheet" :> [name |-> "Timesheet Management",
                     welcomeMessage |->
                       <<"Hello! I'm your Timesheet Management assistant.">>])
    @@
    ("hr-policy" :> [name |-> "HR Policy Assistant",
                     welcomeMessage |->
                       <<"Hello! I'm your HR Policy Assistant.">>])

\* The value null of appState.selectedService
Null == "null"

\* Service identifiers a caller may pass to selectService: the keys of the
\* registry and one that is not a key.
ServiceArgs == DOMAIN SERVICES \cup {"bogus"}

\* Values of the email input field when selectService runs
EmailInputs ==
    { <<>>,
      <<"a", "@", "b">>,
      <<"n", "o", "t", "-", "a", "n", "-", "e", "m", "a", "i", "l">>,
      <<" ", "a", "@", "b", ".", "c">> }

\* Values of the message input field when sendMessage runs
MessageInputs ==
    { <<>>, <<" ">>, <<" ", "h", "i", " ">> }

----------------------------------------------------------------------------
(* validateEmail: /^[^\s@]+@[^\s@]+\.[^\s@]+$/ on the trimmed input *)

\* t[a..b] is a non-empty run of characters of the class [^\s@]
PlainRun(t, a, b) ==
    /\ a <= b
    /\ \A k \in a..b : t[k] \notin Whitespace /\ t[k] # "@"

\* emailRegexTest without the dot of the domain: /^[^\s@]+@[^\s@]+$/
emailRegexTest_NoDot(t) ==
    \E i \in 1..Len(t) :
        /\ t[i] = "@"
        /\ PlainRun(t, 1, i - 1)
        /\ PlainRun(t, i + 1, Len(t))

emailRegexTest(t) ==
    \E i \in 1..Len(t) : \E j \in 1..Len(t) :
        /\ i < j
        /\ t[i] = "@"
        /\ t[j] = "."
        /\ PlainRun(t, 1, i - 1)
        /\ PlainRun(t, i + 1, j - 1)
        /\ PlainRun(t, j + 1, Len(t))

validateEmail(emailInput) == emailRegexTest(Trim(emailInput))

----------------------------------------------------------------------------
(* State *)

VARIABLES
    appState,    \* selectedService, userEmail, conversationHistory,
                 \* isLoading, initialized
    messages,    \* the children of elements.messagesContainer
    requests,    \* the accepted sendMessage calls, in submission order
    lastCall     \* the operation that ran last: its input, its outcome and
                 \* the text it gave to showError

vars == <<appState, messages, requests, lastCall>>

\* A sendMessage call is outstanding while it awaits fetch or response.json
Outstanding == {k \in 1..Len(requests) : requests[k].stage \in {"fetch", "json"}}

----------------------------------------------------------------------------
(* Helpers that the handlers share *)

\* addMessage(role, content): appends to the messages container unless the
\* content is empty.  req is the sendMessage call the element stems from
\* (0: none), the logical timestamp of the Turn.
addMessage(msgs, role, content, req) ==
    IF ~Truthy(content)
    THEN msgs
    ELSE Append(msgs, [role |-> role, content |-> content, req |-> req])

\* showTyping(show)
showTyping(st, show) == [st EXCEPT !.isLoading = show]

\* No text was given to showError
NoError == <<>>

\* A sendMessage call that has returned: nothing of it is referenced any more
Returned(fetched) ==
    [message |-> <<>>, service |-> Null, fetched |-> fetched, stage |-> "done"]

Error(name, message) == [name |-> name, message |-> message]

\* No Error was thrown
NoThrow == Error("", <<>>)

\* An operation that returned without throwing inside
Called(op, arg, outcome, shown) ==
    [op |-> op, arg |-> arg, outcome |-> outcome, showError |-> shown,
     error |-> NoThrow]

\* An operation in which callAPI threw error and sendMessage showed the text
\* shown for it
Threw(op, arg, error, shown) ==
    [op |-> op, arg |-> arg, outcome |-> "failed", showError |-> shown,
     error |-> error]

----------------------------------------------------------------------------
Init ==
    /\ appState = [ selectedService |-> Null,
                    userEmail |-> <<>>,
                    conversationHistory |-> <<>>,
                    isLoading |-> FALSE,
                    initialized |-> FALSE ]
    /\ messages = <<>>
    /\ requests = <<>>
    /\ lastCall = Called("resetToWelcome", <<>>, "ok", NoError)

----------------------------------------------------------------------------
(* selectService(serviceType), with the email input holding emailInput *)

\* selectServiceState that keeps the conversation history of the session before
selectServiceState_KeepsHistory(st, serviceType, email) ==
    [st EXCEPT !.selectedService = serviceType,
               !.userEmail = email,
               !.initialized = TRUE]

\* selectServiceState that also clears the loading flag
selectServiceState_ClearsLoading(st, serviceType, email) ==
    [st EXCEPT !.selectedService = serviceType,
               !.userEmail = email,
               !.conversationHistory = <<>>,
               !.isLoading = FALSE,
               !.initialized = TRUE]

selectServiceState(st, serviceType, email) ==
    [st EXCEPT !.selectedService = serviceType,
               !.userEmail = email,
               !.conversationHistory = <<>>,
               !.initialized = TRUE]

selectService(serviceType, emailInput) ==
    LET email == Trim(emailInput) IN
    IF ~validateEmail(emailInput) \/ ~Truthy(email)
    THEN /\ lastCall' = Called("selectService", <<serviceType, emailInput>>,
                                "InvalidEmail",
                                <<"Please enter a valid email address first.">>)
         /\ UNCHANGED <<appState, messages, requests>>
    ELSE /\ appState' = selectServiceState(appState, serviceType, email)
         /\ IF serviceType \notin DOMAIN SERVICES
            THEN /\ lastCall' = Called("selectService", <<serviceType, emailInput>>,
                                        "InvalidService",
                                        <<"Invalid service selected.">>)
                 /\ UNCHANGED messages
            ELSE /\ messages' = addMessage(<<>>, "assistant",
                                           SERVICES[serviceType].welcomeMessage, 0)
                 /\ lastCall' = Called("selectService", <<serviceType, emailInput>>,
                                        "ok", NoError)
         /\ UNCHANGED requests

----------------------------------------------------------------------------
(* resetToWelcome() *)

\* resetState that keeps the email of the user
resetState_KeepsEmail(st) ==
    [st EXCEPT !.selectedService = Null,
               !.conversationHistory = <<>>,
               !.isLoading = FALSE,
               !.initialized = FALSE]

resetState(st) ==
    [st EXCEPT !.selectedService = Null,
               !.userEmail = <<>>,
               !.conversationHistory = <<>>,
               !.isLoading = FALSE,
               !.initialized = FALSE]

resetToWelcome ==
    /\ appState' = showTyping(resetState(appState), FALSE)
    /\ messages' = <<>>
    /\ lastCall' = Called("resetToWelcome", <<>>, "ok", NoError)
    /\ UNCHANGED requests

----------------------------------------------------------------------------
(* callAPI(message): request construction, up to the call of fetch *)

\* The payload of the request, or the Error thrown before fetch is called
callAPIRequest(st, message) ==
    IF st.selectedService \notin DOMAIN API_CONFIG
    THEN [threw |-> TRUE,
          error |-> Error("Error", <<"Invalid service configuration">>)]
    ELSE LET serviceConfig == API_CONFIG[st.selectedService] IN
         IF st.selectedService = "timesheet"
         THEN [threw |-> FALSE,
               service |-> st.selectedService,
               url |-> <<serviceConfig.baseUrl, serviceConfig.endpoint>>,
               method |-> serviceConfig.method,
               payload |-> [email |-> st.userEmail, user_prompt |-> message]]
         ELSE IF st.selectedService = "hr-policy"
         THEN [threw |-> FALSE,
               service |-> st.selectedService,
               url |-> <<serviceConfig.baseUrl, serviceConfig.endpoint>>,
               method |-> serviceConfig.method,
               payload |-> [question |-> message]]
         ELSE [threw |-> TRUE,
               error |-> Error("Error", <<"Unknown service type">>)]

----------------------------------------------------------------------------
(* callAPI(message): the outcome of fetch *)

\* HTTP statuses the transport answers with in the model
Statuses == {200, 405}

\* Response.ok
ResponseOk(status) == status >= 200 /\ status <= 299

FetchOutcomes ==
    {[kind |-> "rejects", status |-> 0]}
        \cup {[kind |-> "responds", status |-> s] : s \in Statuses}

FailedToFetch == Error("TypeError", <<"Failed to fetch">>)

\* statusError without the branch for 404
statusError_No404(status, serviceConfig) ==
    IF status = 405
    THEN Error("Error", <<"Method not allowed (", ToString(status),
                          "). Check if ", serviceConfig.endpoint, " accepts ",
                          serviceConfig.method, " requests.">>)
    ELSE IF status >= 500
    THEN Error("Error", <<"Server error (", ToString(status),
                          "). The API server may be down.">>)
    ELSE Error("Error", <<"HTTP error! status: ", ToString(status)>>)

\* The Error thrown inside the try block for a response that is not ok
statusError(status, serviceConfig) ==
    IF status = 405
    THEN Error("Error", <<"Method not allowed (", ToString(status),
                          "). Check if ", serviceConfig.endpoint, " accepts ",
                          serviceConfig.method, " requests.">>)
    ELSE IF status = 404
    THEN Error("Error", <<"Endpoint not found (", ToString(status),
                          "). Check if ", serviceConfig.endpoint, " exists.">>)
    ELSE IF status >= 500
    THEN Error("Error", <<"Server error (", ToString(status),
                          "). The API server may be down.">>)
    ELSE Error("Error", <<"HTTP error! status: ", ToString(status)>>)

\* catch (fetchError): what callAPI throws to its caller
rethrow(fetchError) ==
    IF fetchError.name = "TypeError" /\ fetchError.message = <<"Failed to fetch">>
    THEN Error("Error", <<"Cannot connect to API server. Please ensure it is running and accessible.">>)
    ELSE fetchError

----------------------------------------------------------------------------
(* callAPI(message): normalisation of the parsed response body *)

\* A JavaScript value that is undefined (<<>>) or a value v (<<v>>)
Undefined == <<>>
Some(v) == <<v>>
JsTruthy(x) == x # Undefined /\ Truthy(x[1])
JsOr(x, y) == IF JsTruthy(x) THEN x ELSE y
\* String(x), as string concatenation applies it
JsString(x) == IF x = Undefined THEN <<"undefined">> ELSE x[1]

RECURSIVE Join(_, _)
\* Array.prototype.join
Join(arr, sep) ==
    IF arr = <<>> THEN <<>>
    ELSE IF Len(arr) = 1 THEN arr[1]
    ELSE arr[1] \o <<sep>> \o Join(Tail(arr), sep)

Fallback == <<"Response received successfully.">>

Data(answer, response, message, sources) ==
    [answer |-> answer, response |-> response, message |-> message,
     sources |-> sources]

\* Parsed bodies the transport answers with in the model
DataSamples ==
    { Data(Some(<<"A">>), Some(<<"ok">>), Undefined, Undefined) }

\* normalise that does not append the sources
normalise_NoSources(selectedService, data) ==
    IF selectedService = "timesheet"
    THEN JsString(JsOr(JsOr(data.response, data.message), Some(Fallback)))
    ELSE IF selectedService = "hr-policy"
    THEN JsString(JsOr(JsOr(JsOr(data.answer, data.response), data.message),
                       Some(Fallback)))
    ELSE Fallback

\* Lines 372-384, with selectedService read when the body has been parsed
normalise(selectedService, data) ==
    IF selectedService = "timesheet"
    THEN JsString(JsOr(JsOr(data.response, data.message), Some(Fallback)))
    ELSE IF selectedService = "hr-policy"
    THEN LET answer0 == JsOr(JsOr(data.answer, data.response), data.message)
             answer1 == IF data.sources # Undefined /\ Len(data.sources[1]) > 0
                        THEN Some(JsString(answer0) \o <<"\n\nSources: ">>
                                    \o Join(data.sources[1], ", "))
                        ELSE answer0
         IN  JsString(JsOr(answer1, Some(Fallback)))
    ELSE Fallback

JsonOutcomes ==
    {[kind |-> "rejects", data |-> Data(Undefined, Undefined, Undefined, Undefined)]}
        \cup {[kind |-> "parses", data |-> d] : d \in DataSamples}

SyntaxError == Error("SyntaxError", <<"Unexpected token">>)

----------------------------------------------------------------------------
(* sendMessage(), with the message input holding messageInput *)

\* sendMessageGuard without the test of isLoading
sendMessageGuard_IgnoresLoading(st, message) ==
    ~(~Truthy(message) \/ ~st.initialized)

\* sendMessageGuard without the test of initialized
sendMessageGuard_IgnoresInitialized(st, message) ==
    ~(~Truthy(message) \/ st.isLoading)

\* Line 262: the call proceeds
sendMessageGuard(st, message) ==
    ~(~Truthy(message) \/ st.isLoading \/ ~st.initialized)

MethodNotAllowedMsg ==
    <<"Method not allowed - please check the API endpoint configuration.">>

\* errorMsgFor without the branch for 405
errorMsgFor_No405(error) ==
    IF Includes(error.message, "CORS") \/ Includes(error.message, "OPTIONS")
    THEN <<"Connection issue - please ensure the API server is running and CORS is configured.">>
    ELSE IF Includes(error.message, "Failed to fetch")
    THEN <<"Cannot connect to API server. Please ensure it is running.">>
    ELSE <<"Sorry, I encountered an error. Please try again.">>

\* The text of the error toast chosen in the catch block
errorMsgFor(error) ==
    IF Includes(error.message, "CORS") \/ Includes(error.message, "OPTIONS")
    THEN <<"Connection issue - please ensure the API server is running and CORS is configured.">>
    ELSE IF Includes(error.message, "405")
    THEN MethodNotAllowedMsg
    ELSE IF Includes(error.message, "Failed to fetch")
    THEN <<"Cannot connect to API server. Please ensure it is running.">>
    ELSE <<"Sorry, I encountered an error. Please try again.">>

Apology ==
    <<"I apologize, but I encountered an error processing your request. Please try again.">>

\* catchError without the finally block
catchError_NoFinally(k, error, op, arg) ==
    /\ messages' = addMessage(messages, "assistant", Apology, k)
    /\ appState' = appState
    /\ lastCall' = Threw(op, arg, error, errorMsgFor(error))

\* catch (error) { ... } finally { showTyping(false) } of call k
catchError(k, error, op, arg) ==
    /\ messages' = addMessage(messages, "assistant", Apology, k)
    /\ appState' = showTyping(appState, FALSE)
    /\ lastCall' = Threw(op, arg, error, errorMsgFor(error))

sendMessage(messageInput) ==
    LET message == Trim(messageInput)
        k == Len(requests) + 1
    IN
    IF ~sendMessageGuard(appState, message)
    THEN /\ lastCall' = Called("sendMessage", messageInput, "rejected", NoError)
         /\ UNCHANGED <<appState, messages, requests>>
    ELSE /\ Len(requests) < MaxRequests
         /\ LET msgs1 == addMessage(messages, "user", message, k)
                st1 == showTyping(appState, TRUE)
                req == callAPIRequest(st1, message)
            IN
            IF req.threw
            THEN /\ messages' = addMessage(msgs1, "assistant", Apology, k)
                 /\ appState' = showTyping(st1, FALSE)
                 /\ requests' = Append(requests, Returned(FALSE))
                 /\ lastCall' = Threw("sendMessage", messageInput, req.error,
                                      errorMsgFor(req.error))
            ELSE /\ messages' = msgs1
                 /\ appState' = st1
                 /\ requests' = Append(requests,
                        [message |-> message, service |-> req.service,
                         fetched |-> TRUE, stage |-> "fetch" ])
                 /\ lastCall' = Called("sendMessage", messageInput, "accepted",
                                       NoError)

\* await fetch(...) of call k settles
fetchSettles(k, outcome) ==
    /\ requests[k].stage = "fetch"
    /\ IF outcome.kind = "rejects"
       THEN /\ catchError(k, rethrow(FailedToFetch), "fetchSettles", <<k, outcome>>)
            /\ requests' = [requests EXCEPT ![k] = Returned(TRUE)]
       ELSE IF ~ResponseOk(outcome.status)
       THEN /\ catchError(k, rethrow(statusError(outcome.status,
                                                 API_CONFIG[requests[k].service])),
                          "fetchSettles", <<k, outcome>>)
            /\ requests' = [requests EXCEPT ![k] = Returned(TRUE)]
       ELSE /\ requests' = [requests EXCEPT ![k].stage = "json"]
            /\ lastCall' = Called("fetchSettles", <<k, outcome>>, "ok", NoError)
            /\ UNCHANGED <<appState, messages>>

\* pushExchange that records the message of the user only
pushExchange_UserOnly(st, k, message, response) ==
    [st EXCEPT !.conversationHistory =
        Append(@, [role |-> "user", content |-> message, req |-> k])]

\* appState.conversationHistory.push(user Turn, assistant Turn) of call k
pushExchange(st, k, message, response) ==
    [st EXCEPT !.conversationHistory =
        @ \o << [role |-> "user", content |-> message, req |-> k],
                [role |-> "assistant", content |-> response, req |-> k] >>]

\* await response.json() of call k settles
jsonSettles(k, outcome) ==
    /\ requests[k].stage = "json"
    /\ requests' = [requests EXCEPT ![k] = Returned(TRUE)]
    /\ IF outcome.kind = "rejects"
       THEN catchError(k, rethrow(SyntaxError), "jsonSettles", <<k, outcome>>)
       ELSE LET response == normalise(appState.selectedService, outcome.data)
                pushed == pushExchange(appState, k, requests[k].message, response)
            IN  /\ messages' = addMessage(messages, "assistant", response, k)
                /\ appState' = showTyping(pushed, FALSE)
                /\ lastCall' = Called("jsonSettles", <<k, outcome>>, "ok", NoError)

----------------------------------------------------------------------------
Next ==
    \/ \E s \in ServiceArgs, e \in EmailInputs : selectService(s, e)
    \/ \E m \in MessageInputs : sendMessage(m)
    \/ \E k \in 1..Len(requests), o \in FetchOutcomes : fetchSettles(k, o)
    \/ \E k \in 1..Len(requests), o \in JsonOutcomes : jsonSettles(k, o)
    \/ resetToWelcome

Spec == Init /\ [][Next]_vars

\* Call k settles: the transport answers its fetch, or the body is read
Settles(k) ==
    /\ k \in DOMAIN requests
    /\ \/ \E o \in FetchOutcomes : fetchSettles(k, o)
       \/ \E o \in JsonOutcomes : jsonSettles(k, o)

\* The transport eventually answers every request, and every body is
\* eventually read or found unreadable.
SpecLive ==
    Init /\ [][Next]_vars /\ \A k \in 1..MaxRequests : WF_vars(Settles(k))

----------------------------------------------------------------------------
(* The transport answering one call, over a wider range of answers: every   *)
(* class of HTTP status and every combination of absent, empty and present *)
(* fields of the response body.                                            *)

\* Largest number of elements of data.sources
MaxSources == 2

StatusesWide ==
    {200, 204, 299, 300, 400, 404, 405, 499, 500, 503, 599, 600, 999}

FetchOutcomesWide ==
    {[kind |-> "rejects", status |-> 0]}
        \cup {[kind |-> "responds", status |-> s] : s \in StatusesWide}

\* A field of the body: absent, the empty string, or the text v
FieldValues(v) == {Undefined, Some(<<>>), Some(v)}

Docs == { <<"doc1">>, <<"doc2">> }

SourcesValues ==
    {Undefined} \cup
        {Some(q) : q \in UNION {[1..n -> Docs] : n \in 0..MaxSources}}

DataWide ==
    { Data(a, r, m, q) : a \in FieldValues(<<"A">>), r \in FieldValues(<<"ok">>),
                         m \in FieldValues(<<"msg">>), q \in SourcesValues }

JsonOutcomesWide ==
    {[kind |-> "rejects", data |-> Data(Undefined, Undefined, Undefined, Undefined)]}
        \cup {[kind |-> "parses", data |-> d] : d \in DataWide}

\* The state after selectService(s) and an accepted sendMessage(" hi ")
InitTransport ==
    \E s \in DOMAIN API_CONFIG :
        LET emailInput == <<" ", "a", "@", "b", ".", "c">>
            messageInput == <<" ", "h", "i", " ">>
            st0 == [ selectedService |-> Null,
                     userEmail |-> <<>>,
                     conversationHistory |-> <<>>,
                     isLoading |-> FALSE,
                     initialized |-> FALSE ]
            st1 == selectServiceState(st0, s, Trim(emailInput))
            st2 == showTyping(st1, TRUE)
            req == callAPIRequest(st2, Trim(messageInput))
        IN  /\ validateEmail(emailInput)
            /\ sendMessageGuard(st1, Trim(messageInput))
            /\ ~req.threw
            /\ appState = st2
            /\ messages = addMessage(
                              addMessage(<<>>, "assistant",
                                         SERVICES[s].welcomeMessage, 0),
                              "user", Trim(messageInput), 1)
            /\ requests = << [message |-> Trim(messageInput),
                              service |-> req.service,
                              fetched |-> TRUE, stage |-> "fetch"] >>
            /\ lastCall = Called("sendMessage", messageInput, "accepted", NoError)

NextTransport ==
    \/ \E o \in FetchOutcomesWide : fetchSettles(1, o)
    \/ \E o \in JsonOutcomesWide : jsonSettles(1, o)

SpecTransport == InitTransport /\ [][NextTransport]_vars

----------------------------------------------------------------------------
(* Properties *)

\* The fields of the session state: active service, user identifier, history
SessionFields(st) ==
    <<st.selectedService, st.userEmail, st.conversationHistory>>

Welcome(s) == [role |-> "assistant", content |-> SERVICES[s].welcomeMessage, req |-> 0]

Status405 == [kind |-> "responds", status |-> 405]

\* Emails that pass the shape check local-part@domain-with-dot
ValidEmailExamples == { <<" ", "a", "@", "b", ".", "c">> }

\* Emails that fail the shape check local-part@domain-with-dot
InvalidEmailExamples ==
    { <<>>,
      <<"a", "@", "b">>,
      <<"n", "o", "t", "-", "a", "n", "-", "e", "m", "a", "i", "l">> }

\* C1: in every reachable state at most one transport request is outstanding.
C1_AtMostOneOutstanding == Cardinality(Outstanding) <= 1

\* C2: a sendMessage called while isLoading is true is rejected: it issues no
\* transport call and leaves the active service, the user identifier, the
\* history, the transcript and isLoading unchanged.
C2_RejectedWhilePending ==
    [][(appState.isLoading /\ lastCall'.op = "sendMessage")
              => /\ lastCall'.outcome = "rejected"
                 /\ requests' = requests
                 /\ appState' = appState
                 /\ messages' = messages]_vars

\* A non-empty message was rejected in an initialised session only because a
\* request is pending.
C2_Witness ==
    /\ lastCall.op = "sendMessage"
    /\ lastCall.outcome = "rejected"
    /\ Truthy(Trim(lastCall.arg))
    /\ appState.initialized
    /\ appState.isLoading
    /\ Outstanding # {}

\* C3: whenever a transport request is outstanding, isLoading is true.
C3_PendingWhileOutstanding == Outstanding # {} => appState.isLoading

\* C4: selectService with an unknown service id and a valid email fails with
\* InvalidService and leaves the active service, the user identifier and the
\* history of a prior active session as they were.
C4_UnknownServiceLeavesSession ==
    [][(/\ appState.selectedService \in DOMAIN SERVICES
        /\ lastCall'.op = "selectService"
        /\ lastCall'.arg[1] \notin DOMAIN SERVICES
        /\ lastCall'.arg[2] \in ValidEmailExamples)
              => /\ lastCall'.outcome = "InvalidService"
                 /\ SessionFields(appState') = SessionFields(appState)]_vars

C7_HistoryInSubmissionOrder ==
    LET h == appState.conversationHistory IN
    /\ \A i \in 1..Len(h) : \A j \in 1..Len(h) :
          (i < j /\ h[i].role = "user" /\ h[j].role = "user")
              => h[i].req < h[j].req
    /\ \A i \in 1..Len(h) :
          h[i].role = "user"
              => /\ i < Len(h)
                 /\ h[i + 1].role = "assistant"
                 /\ h[i + 1].req = h[i].req

\* C8 as stated: every successful selectService leaves isLoading false.
C8_SelectClearsPending ==
    (lastCall.op = "selectService" /\ lastCall.outcome = "ok")
        => ~appState.isLoading

\* C8 amended: a successful selectService leaves isLoading as it was, so it
\* is false afterwards exactly when it was false before.
C8_SelectKeepsPending ==
    [][(lastCall'.op = "selectService" /\ lastCall'.outcome = "ok")
              => appState'.isLoading = appState.isLoading]_vars

\* A service was selected while a request was outstanding and pending.
C8_Witness ==
    /\ lastCall.op = "selectService"
    /\ lastCall.outcome = "ok"
    /\ appState.isLoading
    /\ Outstanding # {}

\* C9: selectService with an email that fails the shape check fails with
\* InvalidEmail and leaves the active service, the user identifier, the
\* history, the transcript and isLoading unchanged.
C9_InvalidEmailRejected ==
    [][(lastCall'.op = "selectService" /\ lastCall'.arg[2] \in InvalidEmailExamples)
              => /\ lastCall'.outcome = "InvalidEmail"
                 /\ appState' = appState
                 /\ messages' = messages
                 /\ requests' = requests]_vars

\* "a@b" was rejected in an active session.
C9_Witness ==
    /\ lastCall.op = "selectService"
    /\ lastCall.outcome = "InvalidEmail"
    /\ lastCall.arg[2] = <<"a", "@", "b">>
    /\ appState.selectedService \in DOMAIN SERVICES
    /\ Len(messages) > 1

\* C10: the selected service is absent or a key of the service registry.
C10_SelectedServiceRegistered ==
    appState.selectedService = Null \/ appState.selectedService \in DOMAIN SERVICES

\* Message inputs that are empty after trimming
BlankMessageExamples == { <<>>, <<" ">> }

\* C11: a sendMessage called while no service is selected, or with a text
\* that is empty after trimming, is a no-op: it issues no transport call and
\* leaves appState and the transcript unchanged.
C11_NoOpWhenUnselectedOrBlank ==
    [][(/\ lastCall'.op = "sendMessage"
        /\ (appState.selectedService = Null
               \/ lastCall'.arg \in BlankMessageExamples))
              => /\ lastCall'.outcome = "rejected"
                 /\ requests' = requests
                 /\ appState' = appState
                 /\ messages' = messages]_vars

\* A non-empty message was rejected, with nothing pending, because no service
\* is selected.
C11_Witness ==
    /\ lastCall.op = "sendMessage"
    /\ lastCall.outcome = "rejected"
    /\ lastCall.arg = <<" ", "h", "i", " ">>
    /\ appState.selectedService = Null
    /\ ~appState.isLoading

\* C12: when response.json() of a call sent to the timesheet service yields a
\* body with a non-empty field response = r, the history gains the user Turn
\* with the message of the call and then the assistant Turn with content r,
\* and nothing else.
C12_TimesheetRoundTrip ==
    [][(/\ lastCall'.op = "jsonSettles"
        /\ lastCall'.arg[2].kind = "parses"
        /\ requests[lastCall'.arg[1]].service = "timesheet"
        /\ JsTruthy(lastCall'.arg[2].data.response))
              => appState'.conversationHistory =
                     appState.conversationHistory \o
                        << [role |-> "user",
                            content |-> requests[lastCall'.arg[1]].message,
                            req |-> lastCall'.arg[1]],
                           [role |-> "assistant",
                            content |-> lastCall'.arg[2].data.response[1],
                            req |-> lastCall'.arg[1]] >>]_vars

\* The body of a successful response holds no usable answer for the
\* service: response and message (timesheet), and also answer (hr-policy),
\* are absent or empty.
NoUsableText(service, data) ==
    /\ data.response \in {Undefined, Some(<<>>)}
    /\ data.message \in {Undefined, Some(<<>>)}
    /\ service = "hr-policy" => data.answer \in {Undefined, Some(<<>>)}

\* The assistant Turn that the last call produced
LastAssistantContent == messages[Len(messages)].content

\* C13: a successful response with no usable answer field gives an assistant
\* Turn whose content is exactly "Response received successfully.", for both
\* services, also when an hr-policy response carries sources.
C13_FallbackWhenNoAnswer ==
    (/\ lastCall.op = "jsonSettles"
     /\ lastCall.arg[2].kind = "parses"
     /\ NoUsableText(appState.selectedService, lastCall.arg[2].data))
        => /\ messages[Len(messages)].role = "assistant"
           /\ LastAssistantContent = <<"Response received successfully.">>
           /\ appState.conversationHistory[2].content =
                  <<"Response received successfully.">>

RECURSIVE CommaSeparated(_)
\* The elements of a non-empty sequence of texts, separated by ", "
CommaSeparated(S) ==
    IF Len(S) = 1 THEN S[1] ELSE S[1] \o <<", ">> \o CommaSeparated(Tail(S))

\* C14: an hr-policy response with a non-empty answer A and a non-empty
\* sequence of sources S gives the content A, "\n\nSources: " and the
\* elements of S joined by ", "; with absent or empty sources it gives A.
C14_SourcesAppended ==
    (/\ lastCall.op = "jsonSettles"
     /\ lastCall.arg[2].kind = "parses"
     /\ appState.selectedService = "hr-policy"
     /\ lastCall.arg[2].data.answer \notin {Undefined, Some(<<>>)})
        => LET A == lastCall.arg[2].data.answer[1]
               S == lastCall.arg[2].data.sources
               expected == IF S \in {Undefined, Some(<<>>)}
                           THEN A
                           ELSE A \o <<"\n\nSources: ">> \o CommaSeparated(S[1])
           IN  /\ LastAssistantContent = expected
               /\ appState.conversationHistory[2] =
                      [role |-> "assistant", content |-> expected, req |-> 1]

\* The response {"answer": "A", "sources": ["doc1", "doc2"]} gave
\* "A\n\nSources: doc1, doc2".
C14_Witness ==
    /\ lastCall.op = "jsonSettles"
    /\ lastCall.arg[2].kind = "parses"
    /\ appState.selectedService = "hr-policy"
    /\ lastCall.arg[2].data =
           Data(Some(<<"A">>), Undefined, Undefined,
                Some(<< <<"doc1">>, <<"doc2">> >>))
    /\ LastAssistantContent = <<"A", "\n\nSources: ", "doc1", ", ", "doc2">>

\* C15: when fetch rejects with 'Failed to fetch', the error that sendMessage
\* shows is the one of an unreachable server, not the generic one.
C15_NetworkFailureShown ==
    (lastCall.op = "fetchSettles" /\ lastCall.arg[2].kind = "rejects")
        => lastCall.showError =
              <<"Cannot connect to API server. Please ensure it is running.">>

\* The category of the Error that callAPI throws for a response
Category(error) ==
    IF error.message = <<>> THEN "none"
    ELSE IF error.message[1] = "Method not allowed (" THEN "method-not-allowed"
    ELSE IF error.message[1] = "Endpoint not found (" THEN "not-found"
    ELSE IF error.message[1] = "Server error (" THEN "server-error"
    ELSE IF error.message[1] = "HTTP error! status: " THEN "client-error"
    ELSE "other"

\* C16 as stated: 404 is not-found, 405 method-not-allowed, a status in
\* [500,600) server-error, every other status outside 2xx client-error, and a
\* 2xx status is no failure.
C16_StatusCategories ==
    (lastCall.op = "fetchSettles" /\ lastCall.arg[2].kind = "responds")
        => LET status == lastCall.arg[2].status IN
           IF status >= 200 /\ status <= 299
           THEN lastCall.outcome = "ok" /\ Category(lastCall.error) = "none"
           ELSE /\ lastCall.outcome = "failed"
                /\ Category(lastCall.error) =
                      IF status = 404 THEN "not-found"
                      ELSE IF status = 405 THEN "method-not-allowed"
                      ELSE IF status >= 500 /\ status < 600 THEN "server-error"
                      ELSE "client-error"

\* C16 amended: 404 is not-found, 405 method-not-allowed, a status of 500 or
\* more server-error, every other status outside 2xx client-error, and a 2xx
\* status is no failure.
C16_StatusCategoriesFrom500 ==
    (lastCall.op = "fetchSettles" /\ lastCall.arg[2].kind = "responds")
        => LET status == lastCall.arg[2].status IN
           IF status >= 200 /\ status <= 299
           THEN lastCall.outcome = "ok" /\ Category(lastCall.error) = "none"
           ELSE /\ lastCall.outcome = "failed"
                /\ Category(lastCall.error) =
                      IF status = 404 THEN "not-found"
                      ELSE IF status = 405 THEN "method-not-allowed"
                      ELSE IF status >= 500 THEN "server-error"
                      ELSE "client-error"

\* The status 999 was classed as a server error.
C16_Witness ==
    /\ lastCall.op = "fetchSettles"
    /\ lastCall.arg[2] = [kind |-> "responds", status |-> 999]
    /\ Category(lastCall.error) = "server-error"
    /\ lastCall.error.message[2] = "999"

\* C17: resetToWelcome leaves the session Unselected with an empty user
\* identifier, an empty history, an empty transcript and isLoading false,
\* and a second resetToWelcome right after it gives the same state.
C17_ResetIdempotent ==
    lastCall.op = "resetToWelcome"
        => /\ appState = [ selectedService |-> Null,
                           userEmail |-> <<>>,
                           conversationHistory |-> <<>>,
                           isLoading |-> FALSE,
                           initialized |-> FALSE ]
           /\ messages = <<>>
           /\ showTyping(resetState(appState), FALSE) = appState

\* The session was reset while a request was outstanding.
C17_Witness ==
    /\ lastCall.op = "resetToWelcome"
    /\ Outstanding # {}
    /\ appState.selectedService = Null

\* C18: every accepted sendMessage is eventually followed by a state in
\* which isLoading is false, and in which a selected session accepts a
\* further message.
C18_PendingEventuallyClears ==
    (lastCall.op = "sendMessage" /\ lastCall.outcome = "accepted")
        ~> (/\ ~appState.isLoading
            /\ appState.initialized => sendMessageGuard(appState, <<"h", "i">>))

\* A call returned through the catch block and left isLoading false in a
\* selected session.
C18_Witness ==
    /\ lastCall.op \in {"fetchSettles", "jsonSettles"}
    /\ lastCall.outcome = "failed"
    /\ ~appState.isLoading
    /\ appState.initialized
    /\ Outstanding = {}

\* C19: appState.conversationHistory is a sequence of complete exchanges:
\* its length is even, and every Turn at an odd place is a user Turn followed
\* by the assistant Turn of the same call.
C19_HistoryOfExchanges ==
    LET h == appState.conversationHistory IN
    /\ Len(h) % 2 = 0
    /\ \A i \in 1..Len(h) :
          IF i % 2 = 1
          THEN /\ h[i].role = "user"
               /\ h[i + 1].role = "assistant"
               /\ h[i + 1].req = h[i].req
          ELSE h[i].role = "assistant"

\* The history holds two exchanges.
C19_Witness ==
    /\ Len(appState.conversationHistory) = 4
    /\ appState.conversationHistory[3].role = "user"
    /\ appState.conversationHistory[4].role = "assistant"

\* The message of call k is in the transcript: call k was submitted in the
\* session that the transcript shows.
SubmittedInSession(k) ==
    \E j \in 1..Len(messages) : messages[j].role = "user" /\ messages[j].req = k

\* C20: every Turn of the history, and every reply in the transcript, stems
\* from a call submitted in the current session.
C20_TurnsOfCurrentSession ==
    /\ \A i \in 1..Len(appState.conversationHistory) :
          SubmittedInSession(appState.conversationHistory[i].req)
    /\ \A i \in 1..Len(messages) :
          (messages[i].role = "assistant" /\ messages[i].req # 0)
              => SubmittedInSession(messages[i].req)

\* C21: in every reachable state in which no service is selected, the
\* history is empty, the email of the user is empty and isLoading is false,
\* also after a request that was outstanding at the reset has completed.
C21_UnselectedIsBlank ==
    appState.selectedService = Null
        => /\ appState.conversationHistory = <<>>
           /\ appState.userEmail = <<>>
           /\ ~appState.isLoading

\* C22: the body of a response is normalised by the rules of the service
\* the request was sent to, whatever service is selected when the body has
\* been parsed: the reply shown and the assistant Turn pushed are those of
\* the service of the request.
C22_ParsedAsSubmittedService ==
    [][(lastCall'.op = "jsonSettles" /\ lastCall'.arg[2].kind = "parses")
          => LET k == lastCall'.arg[1]
                 expected == normalise(requests[k].service, lastCall'.arg[2].data)
             IN  /\ messages' = addMessage(messages, "assistant", expected, k)
                 /\ appState'.conversationHistory =
                        pushExchange(appState, k, requests[k].message,
                                     expected).conversationHistory]_vars
====
